---- MODULE Spec2Model ----
(***************************************************************************)
(* Offline-first data layer of piggy-tracker: the Realm repository, the    *)
(* transaction and category services, the maintenance job and the          *)
(* Supabase sync engine.                                                   *)
(*                                                                         *)
(* Time is counted in days.  Dates are integers, Null stands for a         *)
(* null/undefined date.  Amount inputs are counted in thousandths of the   *)
(* currency unit, so 0.01 is 10 and 0.004 is 4.                            *)
(***************************************************************************)
EXTENDS Integers, Sequences, FiniteSets, TLC

VARIABLES
  txns,        \* Local Store: Transaction objects by primary key
  cats,        \* Local Store: Category objects by primary key
  now,         \* wall clock
  last,        \* the last operation that ran, its arguments and what it returned
  writer,      \* per local transaction: who wrote its stored content last
  ui,          \* ManageCategoriesScreen: alert / delete modal state
  itemCount,   \* ManageCategoriesScreen: memoised categoryItems[].count
  rTxns,       \* remote table transactions
  rCats,       \* remote table categories
  session,     \* supabase auth session: the signed-in user or NoUser
  lastSyncAt,  \* Preferences.lastSyncAt
  channel,     \* realtime channel 'db-changes' is subscribed
  sync,        \* the syncAll invocation in flight
  budget,      \* local store operations run so far
  cycles,      \* syncAll invocations started so far
  remoteWrites,\* writes of other devices to the remote so far
  config,      \* MAINTENANCE_CONFIG.ENABLE_TOMBSTONE_PURGE of the build
  provider,    \* SyncProvider: its auth status, refs, promises and channels
  prefs,       \* the Preferences record and the hook's rendered view of it
  seeding,     \* components holding a categories service, and their seededRef
  hook         \* syncCallbackRef of the transactions service and its calls

vars == <<txns, cats, now, last, writer, ui, itemCount,
          rTxns, rCats, session, lastSyncAt, channel, sync, budget, cycles,
          remoteWrites, config, provider, prefs, seeding, hook>>

remoteVars == <<rTxns, rCats, session, lastSyncAt, channel, sync, cycles,
               remoteWrites>>
localVars == <<txns, cats, now, last, writer, ui, itemCount, budget, config, provider, prefs, seeding, hook>>
localFrame == <<now, config, provider, prefs, seeding, hook>>

----------------------------------------------------------------------------
(* Bounds of the model *)

MaxTicks == 3          \* clock steps taken
MaxOps == 3            \* local store operations in one behaviour
MaxCycles == 1         \* syncAll invocations in one behaviour
MaxEvents == 2         \* days passed, local edits and writes of other devices
                       \* while the sync engine is observed

(* Program constants *)

TOMBSTONE_RETENTION_DAYS == 90
PURGE_BATCH_SIZE == 100

Null == 0 - 1
NoId == ""
NoUser == ""

TxnIds == {"t1", "t2"}
DefaultCategoryIds ==
  {"cat-food", "cat-transport", "cat-entertainment", "cat-school",
   "cat-shopping", "cat-other"}
UserCategoryIds == {"u1"}
CategoryIds == DefaultCategoryIds \cup UserCategoryIds
CategoryNames == {"Food", "Fun"}
Users == {"A", "B"}
TransactionTypes == {"expense", "income"}
AmountInputs == {4, 10, 0 - 20}

Abs(x) == IF x < 0 THEN 0 - x ELSE x
Min(a, b) == IF a < b THEN a ELSE b

RECURSIVE SumOver(_, _)
SumOver(f, S) ==
  IF S = {} THEN 0
  ELSE LET x == CHOOSE y \in S : TRUE IN f[x] + SumOver(f, S \ {x})

EmptyStore == [i \in {} |-> 0]

Put(store, id, rec) ==
  [i \in DOMAIN store \cup {id} |-> IF i = id THEN rec ELSE store[i]]
Drop(store, ids) == [i \in DOMAIN store \ ids |-> store[i]]

----------------------------------------------------------------------------
(* lib/validation.ts *)

\* amountInputSchema on a number: finite, |value| >= 0.01
AmountAccepted(amount) == Abs(amount) >= 10
\* Math.round(Math.abs(value) * 100)
AmountToCents(amount) == (Abs(amount) + 5) \div 10

DraftAccepted(input) ==
  /\ input.type \in TransactionTypes
  /\ AmountAccepted(input.amount)
  /\ input.categoryId # NoId

validateTransactionDraft(input) ==
  [id |-> input.id, type |-> input.type,
   amountCents |-> AmountToCents(input.amount),
   categoryId |-> input.categoryId, timestamp |-> input.timestamp]

----------------------------------------------------------------------------
(* db/repository.ts *)

generateId == CHOOSE id \in TxnIds \ (DOMAIN txns \cup DOMAIN rTxns) : TRUE
CanGenerateId == TxnIds \ (DOMAIN txns \cup DOMAIN rTxns) # {}

upsertKeepingUpdatedAt(store, draft, t) ==
  Put(store, draft.id,
      [type |-> draft.type,
       amountCents |-> draft.amountCents,
       categoryId |-> draft.categoryId,
       timestamp |-> IF draft.timestamp = Null THEN t ELSE draft.timestamp,
       updatedAt |-> IF draft.id \in DOMAIN store
                     THEN store[draft.id].updatedAt ELSE t,
       syncStatus |-> IF draft.syncStatus = "" THEN "local" ELSE draft.syncStatus,
       deleted |-> draft.deleted])

\* realm.create(Transaction, {...}, UpdateMode.Modified) with updatedAt: now()
upsertTransaction(store, draft, t) ==
  Put(store, draft.id,
      [type |-> draft.type,
       amountCents |-> draft.amountCents,
       categoryId |-> draft.categoryId,
       timestamp |-> IF draft.timestamp = Null THEN t ELSE draft.timestamp,
       updatedAt |-> t,
       syncStatus |-> IF draft.syncStatus = "" THEN "local" ELSE draft.syncStatus,
       deleted |-> draft.deleted])

softDeleteKeepsSyncStatus(txn, t) ==
  [txn EXCEPT !.deleted = TRUE, !.updatedAt = t]

softDeleteFields(txn, t) ==
  [txn EXCEPT !.deleted = TRUE, !.updatedAt = t, !.syncStatus = "local"]

softDeleteTransaction(store, id, t) ==
  IF id \notin DOMAIN store THEN store
  ELSE Put(store, id, softDeleteFields(store[id], t))

purgeTransaction(store, id) == Drop(store, {id})

upsertCategory(store, draft, t) ==
  LET createdAt == IF draft.id \in DOMAIN store THEN store[draft.id].createdAt
                   ELSE IF draft.createdAt # Null THEN draft.createdAt ELSE t
      updatedAt == IF draft.updatedAt # Null THEN draft.updatedAt ELSE t
  IN Put(store, draft.id,
         [name |-> draft.name, icon |-> draft.icon,
          userDefined |-> draft.userDefined,
          createdAt |-> createdAt, updatedAt |-> updatedAt])

Referencing(store, categoryId) ==
  {id \in DOMAIN store : store[id].categoryId = categoryId}

reassignFields(txn, reassignedCategoryId, t) ==
  [txn EXCEPT !.categoryId = reassignedCategoryId, !.updatedAt = t,
              !.syncStatus = "local"]

deleteCategoryActiveOnly(store, id, reassignedCategoryId, t) ==
  IF reassignedCategoryId # NoId
  THEN [i \in DOMAIN store |->
          IF store[i].categoryId = id /\ ~store[i].deleted
          THEN reassignFields(store[i], reassignedCategoryId, t)
          ELSE store[i]]
  ELSE store

\* the Transaction objects after deleteCategory's write transaction
deleteCategoryTxns(store, id, reassignedCategoryId, t) ==
  IF reassignedCategoryId # NoId
  THEN [i \in DOMAIN store |->
          IF store[i].categoryId = id
          THEN reassignFields(store[i], reassignedCategoryId, t)
          ELSE store[i]]
  ELSE store

deleteCategoryCats(store, id) == Drop(store, {id})

----------------------------------------------------------------------------
(* services/transactions.ts *)

allTransactions(store) == DOMAIN store

activeTransactions(store) == {id \in DOMAIN store : store[id].deleted = FALSE}

\* dayjs().startOf('month'), with months of 30 days
startOfMonth(t) == t - (t % 30)

monthToDateTransactions(store, t) ==
  {id \in activeTransactions(store) : store[id].timestamp >= startOfMonth(t)}

\* realm.objectForPrimaryKey: the object, or nothing
getTransactionById(store, id) ==
  IF id \in DOMAIN store THEN {store[id]} ELSE {}

amountCentsOf(store) == [i \in DOMAIN store |-> store[i].amountCents]

totalIncomeCents(store, source) ==
  SumOver(amountCentsOf(store), {id \in source : store[id].type = "income"})

totalExpenseCents(store, source) ==
  SumOver(amountCentsOf(store), {id \in source : store[id].type = "expense"})

remainingBalanceCents(store, source) ==
  totalIncomeCents(store, source) - totalExpenseCents(store, source)

----------------------------------------------------------------------------
(* services/categories.ts and screens/ManageCategoriesScreen.tsx *)

getTransactionCount(store, categoryId) ==
  Cardinality({id \in DOMAIN store :
                 store[id].categoryId = categoryId /\ store[id].deleted = FALSE})

\* the memoised categoryItems: recomputed when the categories collection changes
categoryItems(txnStore, catStore) ==
  [c \in DOMAIN catStore |-> getTransactionCount(txnStore, c)]

Memo(newTxns, newCats) ==
  IF newCats # cats THEN categoryItems(newTxns, newCats) ELSE itemCount

NoUi == [mode |-> "none", id |-> NoId, count |-> 0, replacementId |-> NoId]

----------------------------------------------------------------------------
(* services/maintenance.ts *)

eligibleAtThreshold(txn, t, retentionDays) ==
  /\ txn.deleted
  /\ txn.syncStatus = "synced"
  /\ txn.updatedAt <= t - retentionDays

isTombstoneEligibleForPurge(txn, t, retentionDays) ==
  /\ txn.deleted
  /\ txn.syncStatus = "synced"
  /\ txn.updatedAt < t - retentionDays

\* the filtered query purgeOldTombstones iterates
deletedTransactions(store) ==
  {id \in DOMAIN store : store[id].deleted /\ store[id].syncStatus = "synced"}

EligibleForPurge(store, t) ==
  {id \in deletedTransactions(store) :
     isTombstoneEligibleForPurge(store[id], t, TOMBSTONE_RETENTION_DAYS)}

----------------------------------------------------------------------------
(* Local operations *)

NoOp == [op |-> "", id |-> NoId, cat |-> NoId, repl |-> NoId, ret |-> "", n |-> 0]
Did(op, id, cat, repl, ret, n) ==
  [op |-> op, id |-> id, cat |-> cat, repl |-> repl, ret |-> ret, n |-> n]

Budget == budget < MaxOps

Elapsed(t) == (t \div TOMBSTONE_RETENTION_DAYS) + (t % TOMBSTONE_RETENTION_DAYS)

TickDay ==
  /\ Elapsed(now + 1) <= MaxTicks
  /\ now' = now + 1
  /\ UNCHANGED <<txns, cats, last, writer, ui, itemCount, budget, config, provider, prefs, seeding, hook>>
  /\ UNCHANGED remoteVars

TickRetention ==
  /\ Elapsed(now + TOMBSTONE_RETENTION_DAYS) <= MaxTicks
  /\ now' = now + TOMBSTONE_RETENTION_DAYS
  /\ UNCHANGED <<txns, cats, last, writer, ui, itemCount, budget, config, provider, prefs, seeding, hook>>
  /\ UNCHANGED remoteVars

\* SyncProvider after its first render: status loading, both refs initial
NoProvider ==
  [status |-> "loading", mounted |-> TRUE, hasInitialSynced |-> FALSE,
   realtimeUnsubscribe |-> 0, channels |-> {}, pending |-> {},
   started |-> 0, epoch |-> 0, epochOf |-> <<>>, synced |-> {}]

\* no Preferences record yet, and usePreferences rendered without one
NoPrefs ==
  [records |-> 0, theme |-> "light", currency |-> "USD", lastOpenedAt |-> Null,
   rendered |-> FALSE]

\* no component holds a categories service yet
NoSeeding == [instances |-> {}, seeded |-> FALSE]

NoHook == [registered |-> FALSE, calls |-> 0, seen |-> FALSE]

hookNotInvoked(h, saved) == h

\* if (syncCallbackRef.current) { syncCallbackRef.current() }: `saved` tells
\* whether the callback finds the saved record in the store
invokeHook(h, saved) ==
  IF h.registered THEN [h EXCEPT !.calls = @ + 1, !.seen = saved] ELSE h

\* registerSyncCallback(callback)
RegisterSyncCallback ==
  /\ ~hook.registered
  /\ hook' = [hook EXCEPT !.registered = TRUE]
  /\ UNCHANGED <<txns, cats, now, last, writer, ui, itemCount, budget, config,
                 provider, prefs, seeding>>
  /\ UNCHANGED remoteVars

\* the stored record is what saveTransaction wrote for this payload at the
\* record's updatedAt
WrittenBy(txn, payload) ==
  /\ txn.type = payload.type
  /\ txn.amountCents = payload.amountCents
  /\ txn.categoryId = payload.categoryId
  /\ txn.timestamp =
       IF payload.timestamp = Null THEN txn.updatedAt ELSE payload.timestamp
  /\ txn.syncStatus = "local"
  /\ ~txn.deleted

\* saveTransaction(input): validate, upsert as a local edit, call the hook
SaveTransaction(input) ==
  /\ Budget
  /\ budget' = budget + 1
  /\ IF ~DraftAccepted(input)
     THEN /\ last' = Did("saveTransaction", input.id, input.categoryId, NoId,
                         "ValidationError", 0)
          /\ UNCHANGED <<txns, writer, hook>>
     ELSE LET payload == validateTransactionDraft(input)
              id == IF payload.id = NoId THEN generateId ELSE payload.id
          IN /\ payload.id = NoId => CanGenerateId
             /\ txns' = upsertTransaction(txns,
                           [id |-> id, type |-> payload.type,
                            amountCents |-> payload.amountCents,
                            categoryId |-> payload.categoryId,
                            timestamp |-> payload.timestamp,
                            syncStatus |-> "local", deleted |-> FALSE], now)
             /\ writer' = Put(writer, id, "local")
             /\ last' = Did("saveTransaction", id, input.categoryId, NoId, id,
                            IF id \in DOMAIN txns /\ WrittenBy(txns[id], payload)
                            THEN 1 ELSE 0)
             /\ hook' = invokeHook(hook, id \in DOMAIN txns')
  /\ UNCHANGED <<cats, ui, itemCount>>
  /\ UNCHANGED <<now, config, provider, prefs, seeding>>
  /\ UNCHANGED remoteVars

\* markDeleted(id) = softDeleteTransaction(id)
MarkDeleted(id) ==
  /\ Budget
  /\ budget' = budget + 1
  /\ txns' = softDeleteTransaction(txns, id, now)
  /\ writer' = IF id \in DOMAIN txns THEN Put(writer, id, "local") ELSE writer
  /\ last' = Did("softDeleteTransaction", id, NoId, NoId,
                 IF id \in DOMAIN txns THEN "true" ELSE "false", 0)
  /\ UNCHANGED <<cats, ui, itemCount>>
  /\ UNCHANGED localFrame
  /\ UNCHANGED remoteVars

\* removePermanently(id) = purgeTransaction(id)
RemovePermanently(id) ==
  /\ Budget
  /\ budget' = budget + 1
  /\ txns' = purgeTransaction(txns, id)
  /\ writer' = Drop(writer, {id})
  /\ last' = Did("purgeTransaction", id, NoId, NoId,
                 IF id \in DOMAIN txns THEN "true" ELSE "false", 0)
  /\ UNCHANGED <<cats, ui, itemCount>>
  /\ UNCHANGED localFrame
  /\ UNCHANGED remoteVars


\* addCategory(name, icon)
AddCategory(name, icon) ==
  /\ Budget
  /\ budget' = budget + 1
  /\ UserCategoryIds \ (DOMAIN cats \cup DOMAIN rCats) # {}
  /\ LET id == CHOOSE c \in UserCategoryIds \ (DOMAIN cats \cup DOMAIN rCats) : TRUE
     IN /\ cats' = upsertCategory(cats,
                      [id |-> id, name |-> name, icon |-> icon,
                       userDefined |-> TRUE, createdAt |-> Null,
                       updatedAt |-> Null], now)
        /\ last' = Did("addCategory", NoId, id, NoId, id, 0)
  /\ itemCount' = Memo(txns, cats')
  /\ UNCHANGED <<txns, writer, ui>>
  /\ UNCHANGED localFrame
  /\ UNCHANGED remoteVars

\* removeCategory(id, replacementId?) = deleteCategory(id, reassignedCategoryId?)
removeCategory(id, replacementId) ==
  IF id \notin DOMAIN cats
  THEN /\ last' = Did("removeCategory", NoId, id, replacementId, "false", 0)
       /\ UNCHANGED <<txns, cats, writer, itemCount>>
  ELSE /\ txns' = deleteCategoryTxns(txns, id, replacementId, now)
       /\ cats' = deleteCategoryCats(cats, id)
       /\ writer' = [i \in DOMAIN writer |->
                       IF replacementId # NoId /\ txns[i].categoryId = id
                       THEN "local" ELSE writer[i]]
       /\ itemCount' = Memo(txns', cats')
       /\ last' = Did("removeCategory", NoId, id, replacementId, "true",
                      Cardinality(Referencing(txns, id)))

\* ManageCategoriesScreen mounts: categoryItems is computed afresh
OpenManageCategories ==
  /\ itemCount # categoryItems(txns, cats) \/ ui # NoUi
  /\ itemCount' = categoryItems(txns, cats)
  /\ ui' = NoUi
  /\ UNCHANGED <<txns, cats, last, writer, budget>>
  /\ UNCHANGED localFrame
  /\ UNCHANGED remoteVars

\* handleDeleteCategory(item): an alert when the memoised count is 0, else the
\* replacement modal
HandleDeleteCategory(item) ==
  /\ ui.mode = "none"
  /\ item \in DOMAIN itemCount
  /\ ui' = [mode |-> IF itemCount[item] = 0 THEN "alert" ELSE "modal",
            id |-> item, count |-> itemCount[item], replacementId |-> NoId]
  /\ UNCHANGED <<txns, cats, last, writer, itemCount, budget>>
  /\ UNCHANGED localFrame
  /\ UNCHANGED remoteVars

\* the alert's Delete button: removeCategory(item.id)
AlertDelete ==
  /\ ui.mode = "alert"
  /\ removeCategory(ui.id, NoId)
  /\ ui' = NoUi
  /\ UNCHANGED budget
  /\ UNCHANGED localFrame
  /\ UNCHANGED remoteVars

\* a replacement picked among availableReplacementOptions
SelectReplacement(option) ==
  /\ ui.mode = "modal"
  /\ option \in DOMAIN itemCount \ {ui.id}
  /\ ui.replacementId # option
  /\ ui' = [ui EXCEPT !.replacementId = option]
  /\ UNCHANGED <<txns, cats, last, writer, itemCount, budget>>
  /\ UNCHANGED localFrame
  /\ UNCHANGED remoteVars

\* handleConfirmDelete
HandleConfirmDelete ==
  /\ ui.mode = "modal"
  /\ IF ui.count > 0 /\ ui.replacementId = NoId
     THEN UNCHANGED <<txns, cats, last, writer, itemCount, ui>>
     ELSE /\ removeCategory(ui.id, ui.replacementId)
          /\ ui' = NoUi
  /\ UNCHANGED budget
  /\ UNCHANGED localFrame
  /\ UNCHANGED remoteVars

\* a build that runs the purge whatever the flag says
purgeAlwaysEnabled(cfg) == TRUE

\* the feature flag test of purgeOldTombstones and schedulePurge
purgeEnabled(cfg) == cfg.ENABLE_TOMBSTONE_PURGE

\* purgeOldTombstones(realm) through runPurge()
RunPurge ==
  /\ IF ~purgeEnabled(config)
     THEN /\ last' = Did("purgeOldTombstones", NoId, NoId, NoId, "disabled", 0)
          /\ UNCHANGED <<txns, writer>>
     ELSE \E toPurge \in SUBSET EligibleForPurge(txns, now) :
            /\ Cardinality(toPurge) =
                 Min(Cardinality(EligibleForPurge(txns, now)), PURGE_BATCH_SIZE)
            /\ txns' = Drop(txns, toPurge)
            /\ writer' = Drop(writer, toPurge)
            /\ last' = Did("purgeOldTombstones", NoId, NoId, NoId, "ran",
                           Cardinality(toPurge))
  /\ UNCHANGED <<cats, ui, itemCount, budget>>
  /\ UNCHANGED localFrame
  /\ UNCHANGED remoteVars

----------------------------------------------------------------------------
(* services/supabaseSync.ts: rows received from the remote *)

\* the draft pullTransactions and the realtime listener build from a row
rowToDraft(id, row) ==
  [id |-> id, type |-> row.type, amountCents |-> row.amount_cents,
   categoryId |-> row.category_id, timestamp |-> row.timestamp,
   syncStatus |-> "synced", deleted |-> (row.deleted_at # Null)]

\* the realtime listener's transactions callback
OnTransactionChange(eventType, id, row) ==
  /\ channel
  /\ Budget
  /\ budget' = budget + 1
  /\ IF eventType \in {"INSERT", "UPDATE"}
     THEN /\ txns' = upsertTransaction(txns, rowToDraft(id, row), now)
          /\ writer' = Put(writer, id, "remote")
     ELSE UNCHANGED <<txns, writer>>
  /\ last' = Did("realtime", id, NoId, NoId, eventType, 0)
  /\ UNCHANGED <<cats, ui, itemCount>>
  /\ UNCHANGED localFrame
  /\ UNCHANGED remoteVars

----------------------------------------------------------------------------
(* services/supabaseSync.ts: the four phases and syncAll *)

Phases == {"pullCategories", "pullTransactions", "pushCategories", "pushTransactions"}

NoResult == [kind |-> "none", success |-> FALSE, error |-> ""]
Success == [kind |-> "result", success |-> TRUE, error |-> ""]
Failure(message) == [kind |-> "result", success |-> FALSE, error |-> message]
Thrown == [kind |-> "thrown", success |-> FALSE, error |-> ""]

rethrow(message) == Thrown

\* catch (error) { return { success: false, error: error.message } }
catchBlock(message) == Failure(message)

sinceAlways(isInitialSync, lastSync) == lastSync

\* const since = !isInitialSync && lastSyncAt ? lastSyncAt : undefined
sinceOf(isInitialSync, lastSync) ==
  IF ~isInitialSync /\ lastSync # Null THEN lastSync ELSE Null

nextPhaseIgnoringFailure(phase, result) ==
  CASE phase = "pullCategories" -> "pullTransactions"
    [] phase = "pullTransactions" -> "pushCategories"
    [] phase = "pushCategories" -> "pushTransactions"
    [] OTHER -> "done"

nextPhaseRetrying(phase, result) ==
  IF result.kind = "result" /\ ~result.success THEN phase
  ELSE nextPhaseIgnoringFailure(phase, result)

\* syncAll: the phase that follows `phase` returning `result`, or "done"
nextPhase(phase, result) ==
  IF result.kind = "thrown" \/ ~result.success THEN "done"
  ELSE nextPhaseIgnoringFailure(phase, result)

selectTransactionsFrom(remote, user, since) ==
  {id \in DOMAIN remote :
     /\ remote[id].user_id = user
     /\ since # Null => remote[id].updated_at >= since}

\* from('transactions').select('*').eq('user_id', user.id)[.gt('updated_at', since)]
selectTransactions(remote, user, since) ==
  {id \in DOMAIN remote :
     /\ remote[id].user_id = user
     /\ since # Null => remote[id].updated_at > since}

\* from('categories').select('*').eq('user_id', user.id).is('deleted_at', null)
selectCategories(remote, user) ==
  {id \in DOMAIN remote :
     remote[id].user_id = user /\ remote[id].deleted_at = Null}

localActiveTransactions(store, user, t) ==
  [id \in {i \in DOMAIN store : ~store[i].deleted} |->
     [user_id |-> user, type |-> store[id].type,
      amount_cents |-> store[id].amountCents,
      category_id |-> store[id].categoryId,
      timestamp |-> store[id].timestamp,
      deleted_at |-> Null,
      updated_at |-> store[id].updatedAt]]

\* the rows pushTransactions sends
localTransactions(store, user, t) ==
  [id \in DOMAIN store |->
     [user_id |-> user, type |-> store[id].type,
      amount_cents |-> store[id].amountCents,
      category_id |-> store[id].categoryId,
      timestamp |-> store[id].timestamp,
      deleted_at |-> IF store[id].deleted THEN t ELSE Null,
      updated_at |-> store[id].updatedAt]]

\* the rows pushCategories sends
localCategories(store, user) ==
  [id \in {c \in DOMAIN store : store[c].userDefined} |->
     [user_id |-> user, name |-> store[id].name, icon |-> store[id].icon,
      deleted_at |-> Null, updated_at |-> store[id].updatedAt]]

\* upsert(rows, { onConflict: 'id' }) on the remote transactions table
remoteUpsert(remote, rows) ==
  [id \in DOMAIN remote \cup DOMAIN rows |->
     IF id \in DOMAIN rows THEN rows[id] ELSE remote[id]]

\* the same on the categories table: created_at is the server's default on insert
remoteUpsertCategories(remote, rows, t) ==
  [id \in DOMAIN remote \cup DOMAIN rows |->
     IF id \in DOMAIN rows
     THEN [user_id |-> rows[id].user_id, name |-> rows[id].name,
           icon |-> rows[id].icon, deleted_at |-> rows[id].deleted_at,
           created_at |-> IF id \in DOMAIN remote THEN remote[id].created_at ELSE t,
           updated_at |-> rows[id].updated_at]
     ELSE remote[id]]

\* data.forEach(txn => upsertTransaction({..., syncStatus: 'synced'})) over `ids`
mergeTransactions(store, data, ids, t) ==
  [id \in DOMAIN store \cup ids |->
     IF id \in ids THEN upsertTransaction(store, rowToDraft(id, data[id]), t)[id]
     ELSE store[id]]

categoryRowToDraft(id, row) ==
  [id |-> id, name |-> row.name, icon |-> row.icon, userDefined |-> TRUE,
   createdAt |-> row.created_at, updatedAt |-> row.updated_at]

\* data.forEach(cat => upsertCategory({..., userDefined: true})) over `ids`
mergeCategories(store, data, ids, t) ==
  [id \in DOMAIN store \cup ids |->
     IF id \in ids THEN upsertCategory(store, categoryRowToDraft(id, data[id]), t)[id]
     ELSE store[id]]

NoSync ==
  [pc |-> "idle", step |-> "begin", caller |-> "", isInitialSync |-> FALSE,
   lastSyncAt |-> Null, since |-> Null, user |-> NoUser, data |-> EmptyStore,
   res |-> [p \in Phases |-> NoResult], attempts |-> [p \in Phases |-> 0],
   requested |-> {}, wrote |-> {}, applied |-> {}, ret |-> NoResult,
   local0 |-> EmptyStore, remote0 |-> EmptyStore, budget0 |-> 0, writes0 |-> 0]

\* SyncProvider: syncAll(); AccountScreen: handleSync(true) on authentication,
\* handleSync(false) from the Sync Now button
StartSync(caller) ==
  /\ sync.pc = "idle"
  /\ session # NoUser
  /\ cycles < MaxCycles
  /\ cycles' = cycles + 1
  /\ LET isInitialSync == (caller = "auto")
         lastSync == IF caller = "provider" THEN Null ELSE lastSyncAt
     IN sync' = [NoSync EXCEPT
                   !.pc = "pullCategories", !.caller = caller,
                   !.isInitialSync = isInitialSync, !.lastSyncAt = lastSync,
                   !.since = sinceOf(isInitialSync, lastSync),
                   !.local0 = txns, !.remote0 = rTxns,
                   !.budget0 = budget, !.writes0 = remoteWrites]
  /\ UNCHANGED <<rTxns, rCats, session, lastSyncAt, channel, remoteWrites>>
  /\ UNCHANGED localVars

\* the phase `p` returns `result` to syncAll
Returned(s, p, result) ==
  [s EXCEPT !.res[p] = result,
            !.pc = nextPhase(p, result),
            !.step = "begin",
            !.data = EmptyStore,
            !.ret = IF nextPhase(p, result) = "done" THEN result ELSE s.ret]

\* a phase up to its remote request: auth.getUser(), then the query or the upsert
PhaseBegin ==
  /\ sync.pc \in Phases
  /\ sync.step = "begin"
  /\ LET p == sync.pc
         s == [sync EXCEPT !.attempts[p] = @ + 1, !.user = session]
     IN \E getUser \in {"resolves", "rejects"} :
          sync' =
            IF getUser = "rejects" THEN Returned(s, p, catchBlock("exception"))
            ELSE IF session = NoUser THEN Returned(s, p, Failure("Not authenticated"))
            ELSE IF p = "pushCategories" /\ DOMAIN localCategories(cats, session) = {}
            THEN Returned(s, p, Success)
            ELSE [s EXCEPT
                    !.step = "await",
                    !.requested = @ \cup {p},
                    !.data =
                      CASE p = "pullCategories" ->
                             [id \in selectCategories(rCats, session) |-> rCats[id]]
                        [] p = "pullTransactions" ->
                             [id \in selectTransactions(rTxns, session, s.since)
                                |-> rTxns[id]]
                        [] p = "pushCategories" -> localCategories(cats, session)
                        [] OTHER -> localTransactions(txns, session, now)]
  /\ UNCHANGED <<rTxns, rCats, session, lastSyncAt, channel, cycles, remoteWrites>>
  /\ UNCHANGED localVars

AppliedRows(data, ids) ==
  {[id |-> id, user_id |-> data[id].user_id, updated_at |-> data[id].updated_at] :
     id \in ids}

\* a pull phase from the remote's answer on: error, or the rows merged into the
\* Local Store; an upsert that throws leaves the rows before it merged
PullEnd ==
  /\ sync.pc \in {"pullCategories", "pullTransactions"}
  /\ sync.step = "await"
  /\ LET p == sync.pc IN
     \E answer \in {"data", "error", "rejects"}, ids \in SUBSET DOMAIN sync.data :
       /\ answer # "data" => ids = {}
       /\ LET result == IF answer = "error" THEN Failure("remote error")
                        ELSE IF answer = "rejects" \/ ids # DOMAIN sync.data
                        THEN catchBlock("exception")
                        ELSE Success
              s == [sync EXCEPT !.wrote = IF ids = {} THEN @ ELSE @ \cup {p},
                                 !.applied = IF p = "pullTransactions"
                                             THEN AppliedRows(sync.data, ids) ELSE @]
          IN /\ sync' = Returned(s, p, result)
             /\ IF p = "pullCategories"
                THEN /\ cats' = mergeCategories(cats, sync.data, ids, now)
                     /\ UNCHANGED <<txns, writer>>
                ELSE /\ txns' = mergeTransactions(txns, sync.data, ids, now)
                     /\ writer' = [id \in DOMAIN writer \cup ids |->
                                     IF id \in ids THEN "remote" ELSE writer[id]]
                     /\ UNCHANGED cats
             /\ itemCount' = Memo(txns', cats')
  /\ UNCHANGED <<now, last, ui, budget, config, provider, prefs, seeding, hook>>
  /\ UNCHANGED <<rTxns, rCats, session, lastSyncAt, channel, cycles, remoteWrites>>

\* a push phase from the remote's answer on
PushEnd ==
  /\ sync.pc \in {"pushCategories", "pushTransactions"}
  /\ sync.step = "await"
  /\ LET p == sync.pc IN
     \E answer \in {"ok", "error", "rejects"} :
       /\ sync' = Returned(sync, p,
                     IF answer = "ok" THEN Success
                     ELSE IF answer = "error" THEN Failure("remote error")
                     ELSE catchBlock("exception"))
       /\ IF answer # "ok" THEN UNCHANGED <<rTxns, rCats>>
          ELSE IF p = "pushCategories"
          THEN /\ rCats' = remoteUpsertCategories(rCats, sync.data, now)
               /\ UNCHANGED rTxns
          ELSE /\ rTxns' = remoteUpsert(rTxns, sync.data)
               /\ UNCHANGED rCats
  /\ UNCHANGED localVars
  /\ UNCHANGED <<session, lastSyncAt, channel, cycles, remoteWrites>>

\* the caller's continuation: handleSync records lastSyncAt, SyncProvider
\* subscribes to the realtime channel
SyncReturn ==
  /\ sync.pc = "done"
  /\ sync' = NoSync
  /\ lastSyncAt' = IF sync.caller \in {"auto", "manual"} /\ sync.ret.success
                   THEN now ELSE lastSyncAt
  /\ channel' = IF sync.caller = "provider" /\ sync.ret.success
                THEN TRUE ELSE channel
  /\ UNCHANGED <<rTxns, rCats, session, cycles, remoteWrites>>
  /\ UNCHANGED localVars

\* logout(): the session ends; SyncProvider removes its channel
Logout ==
  /\ session # NoUser
  /\ session' = NoUser
  /\ channel' = FALSE
  /\ UNCHANGED <<rTxns, rCats, lastSyncAt, sync, cycles, remoteWrites>>
  /\ UNCHANGED localVars

Login(user) ==
  /\ session = NoUser
  /\ session' = user
  /\ UNCHANGED <<rTxns, rCats, lastSyncAt, channel, sync, cycles, remoteWrites>>
  /\ UNCHANGED localVars

\* another device pushes a row: updated_at is that device's edit time
OtherDeviceWrite(id, row) ==
  /\ remoteWrites' = remoteWrites + 1
  /\ row.updated_at <= now
  /\ id \in DOMAIN rTxns => rTxns[id].user_id = row.user_id
  /\ id \notin DOMAIN rTxns => id \notin DOMAIN txns
  /\ rTxns' = Put(rTxns, id, row)
  /\ UNCHANGED <<rCats, session, lastSyncAt, channel, sync, cycles>>
  /\ UNCHANGED localVars

----------------------------------------------------------------------------
(* The local store with its services, the maintenance job and the realtime *)
(* listener applying rows of an arbitrary remote                           *)

SeededCategory(name) ==
  [name |-> name, icon |-> "apps-outline", userDefined |-> FALSE,
   createdAt |-> 0, updatedAt |-> 0]

InitLocal ==
  /\ txns = EmptyStore
  /\ writer = EmptyStore
  /\ cats = [c \in {"cat-food", "cat-other"} |->
               SeededCategory(IF c = "cat-food" THEN "Food" ELSE "Fun")]
  /\ itemCount = [c \in {"cat-food", "cat-other"} |-> 0]
  /\ ui = NoUi
  /\ now = 0
  /\ last = NoOp
  /\ budget = 0
  /\ config \in [ENABLE_TOMBSTONE_PURGE : BOOLEAN]
  /\ rTxns = EmptyStore
  /\ rCats = EmptyStore
  /\ session = "A"
  /\ lastSyncAt = Null
  /\ channel = TRUE
  /\ sync = NoSync
  /\ cycles = 0
  /\ remoteWrites = 0
  /\ hook = NoHook
  /\ provider = NoProvider
  /\ prefs = NoPrefs
  /\ seeding = NoSeeding

PurgeDisabled == [ENABLE_TOMBSTONE_PURGE |-> FALSE]

ServiceInputs ==
  [id : DOMAIN txns \cup {NoId}, type : TransactionTypes, amount : AmountInputs,
   categoryId : {"cat-food"}, timestamp : {Null}]

\* the remote column amount_cents is a number with no bound the client checks
ServiceRows ==
  [user_id : {"A"}, type : TransactionTypes, amount_cents : {0, 1},
   category_id : {"cat-food"}, timestamp : {0}, deleted_at : {Null, 0},
   updated_at : {0}]

NextLocal ==
  \/ TickDay
  \/ TickRetention
  \/ \E input \in ServiceInputs : SaveTransaction(input)
  \/ \E id \in TxnIds : MarkDeleted(id)
  \/ \E id \in TxnIds : RemovePermanently(id)
  \/ \E id \in TxnIds, row \in ServiceRows :
       OnTransactionChange("UPDATE", id, row)

\* the store after construction in the build as configured in the source
InitShipped == InitLocal /\ config = PurgeDisabled

SpecLocal == InitShipped /\ [][NextLocal]_vars

----------------------------------------------------------------------------
(* Category management on top of the local store *)

FormInputs ==
  [id : DOMAIN txns \cup {NoId}, type : {"expense"}, amount : {10},
   categoryId : DOMAIN cats, timestamp : {Null}]

FormRows ==
  [user_id : {"A"}, type : {"expense"}, amount_cents : {1},
   category_id : {"cat-food"}, timestamp : {0}, deleted_at : {Null, 0},
   updated_at : {0}]

NextCategories ==
  \/ TickDay
  \/ \E input \in FormInputs : SaveTransaction(input)
  \/ \E id \in TxnIds : MarkDeleted(id)
  \/ \E name \in CategoryNames : AddCategory(name, "apps-outline")
  \/ OpenManageCategories
  \/ \E item \in CategoryIds : HandleDeleteCategory(item)
  \/ AlertDelete
  \/ \E option \in CategoryIds : SelectReplacement(option)
  \/ HandleConfirmDelete
  \/ \E id \in TxnIds, row \in FormRows :
       OnTransactionChange("UPDATE", id, row)

SpecCategories == InitShipped /\ [][NextCategories]_vars

----------------------------------------------------------------------------
(* The maintenance job over tombstones of every age and sync status *)

NextMaintenance ==
  \/ TickDay
  \/ TickRetention
  \/ \E input \in FormInputs : SaveTransaction(input)
  \/ \E id \in TxnIds : MarkDeleted(id)
  \/ \E id \in TxnIds, row \in FormRows :
       OnTransactionChange("UPDATE", id, row)
  \/ RunPurge

SpecMaintenance == InitLocal /\ [][NextMaintenance]_vars

----------------------------------------------------------------------------
(* Properties of the local store and its services *)

LocalMutations == {"saveTransaction", "softDeleteTransaction"}

\* C6: a transaction whose stored content was last written by a local
\* operation (saveTransaction, softDeleteTransaction, the reassignment of
\* deleteCategory) has syncStatus local; syncStatus synced occurs only on
\* content written from a row received from the remote.
C6_SyncStatusFollowsWriter ==
  /\ \A id \in DOMAIN txns :
       /\ writer[id] = "local" => txns[id].syncStatus = "local"
       /\ txns[id].syncStatus = "synced" => writer[id] = "remote"
  /\ (last.op \in LocalMutations /\ last.id \in DOMAIN txns
        /\ last.ret \notin {"false", "ValidationError"})
       => txns[last.id].syncStatus = "local"

C6_Witness ==
  /\ last.op = "removeCategory" /\ last.repl # NoId /\ last.n > 0
  /\ \E id \in DOMAIN txns :
       txns[id].syncStatus = "local" /\ txns[id].deleted
         /\ txns[id].categoryId = last.repl
  /\ \E id \in DOMAIN txns : txns[id].syncStatus = "synced"

NotDeleted == {id \in DOMAIN txns : ~txns[id].deleted}

\* C7: a transaction with deleted = true is in none of the active list,
\* monthToDateTransactions and the three totals over the default source, while
\* getTransactionById still returns it; the balance is income minus expenses.
C7_SoftDeleteExclusion ==
  LET source == activeTransactions(txns)
      income == SumOver(amountCentsOf(txns),
                        {id \in NotDeleted : txns[id].type = "income"})
      expense == SumOver(amountCentsOf(txns),
                         {id \in NotDeleted : txns[id].type = "expense"})
  IN /\ \A id \in DOMAIN txns :
          txns[id].deleted =>
            /\ id \notin source
            /\ id \notin monthToDateTransactions(txns, now)
            /\ getTransactionById(txns, id) = {txns[id]}
     /\ totalIncomeCents(txns, source) = income
     /\ totalExpenseCents(txns, source) = expense
     /\ remainingBalanceCents(txns, source) = income - expense
     /\ \A id \in TxnIds \ DOMAIN txns : getTransactionById(txns, id) = {}

C7_Witness ==
  /\ last.op = "softDeleteTransaction" /\ last.ret = "true"
  /\ txns[last.id].deleted /\ txns[last.id].type = "income"
  /\ \E id \in DOMAIN txns : ~txns[id].deleted /\ txns[id].type = "income"
  /\ totalIncomeCents(txns, activeTransactions(txns)) > 0

\* C8: removeCategory(C, R) on a category referenced by N > 0 transactions
\* (active or tombstoned) is one step after which those N transactions
\* reference R with syncStatus local, none references C, and C is gone from
\* the category list.
C8_ReassignmentAtomic ==
  [][(/\ last' # last
      /\ last'.op = "removeCategory" /\ last'.ret = "true"
      /\ last'.repl # NoId
      /\ Referencing(txns, last'.cat) # {})
     => (/\ \A id \in Referencing(txns, last'.cat) :
               /\ id \in DOMAIN txns'
               /\ txns'[id].categoryId = last'.repl
               /\ txns'[id].syncStatus = "local"
         /\ last'.n = Cardinality(Referencing(txns, last'.cat))
         /\ Referencing(txns', last'.cat) = {}
         /\ Referencing(txns', last'.repl) =
              Referencing(txns, last'.repl) \cup Referencing(txns, last'.cat)
         /\ DOMAIN txns' = DOMAIN txns
         /\ last'.cat \notin DOMAIN cats'
         /\ last'.cat \notin DOMAIN itemCount')]_vars

C8_Witness ==
  /\ last.op = "removeCategory" /\ last.ret = "true" /\ last.repl # NoId
  /\ last.n = 2
  /\ Cardinality(Referencing(txns, last.repl)) = 2
  /\ \E id \in Referencing(txns, last.repl) : txns[id].deleted
  /\ \E id \in Referencing(txns, last.repl) : ~txns[id].deleted

\* C9: removeCategory removes a category without a replacement only when no
\* transaction references it, so no transaction is left pointing at the
\* removed category id.
C9_NoOrphaningDelete ==
  (last.op = "removeCategory" /\ last.ret = "true")
    => /\ last.repl = NoId => last.n = 0
       /\ Referencing(txns, last.cat) = {}

C10_WitnessInsideWindow ==
  /\ last.op = "purgeOldTombstones" /\ last.ret = "ran"
  /\ \E id \in DOMAIN txns :
       /\ txns[id].deleted /\ txns[id].syncStatus = "synced"
       /\ now - txns[id].updatedAt = TOMBSTONE_RETENTION_DAYS

----------------------------------------------------------------------------
(* The sync engine between the local store and the remote *)

RemoteCategory(user) ==
  [user_id |-> user, name |-> "Fun", icon |-> "apps-outline",
   deleted_at |-> Null, created_at |-> 0, updated_at |-> 0]

\* a transaction saved on day 0, as a sync cycle pushes it
SavedOnDay0 ==
  [type |-> "expense", amountCents |-> 1, categoryId |-> "cat-food",
   timestamp |-> 0, updatedAt |-> 0, syncStatus |-> "local", deleted |-> FALSE]

\* the day the sync engine is observed from
StartDay == 1 + 1

\* either a fresh install of a user who created a category on another device,
\* or a device that saved t1 on day 0 and last completed a sync cycle on day 0
\* or today
Init ==
  /\ now = StartDay
  /\ \/ /\ txns = EmptyStore
        /\ writer = EmptyStore
        /\ rTxns = EmptyStore
        /\ rCats = [c \in {"u1"} |-> RemoteCategory("A")]
        /\ lastSyncAt = Null
     \/ /\ txns = [id \in {"t1"} |-> SavedOnDay0]
        /\ writer = [id \in {"t1"} |-> "local"]
        /\ rTxns = localTransactions(txns, "A", 0)
        /\ rCats = EmptyStore
        /\ lastSyncAt \in {0, StartDay}
  /\ cats = [c \in {"cat-food"} |-> SeededCategory("Food")]
  /\ itemCount = [c \in {"cat-food"} |-> 0]
  /\ ui = NoUi
  /\ last = NoOp
  /\ budget = 0
  /\ config = PurgeDisabled
  /\ session = "A"
  /\ channel = FALSE
  /\ sync = NoSync
  /\ cycles = 0
  /\ remoteWrites = 0
  /\ hook = NoHook
  /\ provider = NoProvider
  /\ prefs = NoPrefs
  /\ seeding = NoSeeding

SyncInputs ==
  [id : DOMAIN txns \cup {NoId}, type : {"expense"}, amount : {10},
   categoryId : {"cat-food"}, timestamp : {Null}]

OtherDeviceRows ==
  [user_id : Users, type : {"income"}, amount_cents : {2},
   category_id : {"cat-food"}, timestamp : {0}, deleted_at : {Null},
   updated_at : {now - 1, now}]

EventsLeft == (now - StartDay) + budget + remoteWrites < MaxEvents

Next ==
  \/ EventsLeft /\ TickDay
  \/ \E input \in SyncInputs : EventsLeft /\ SaveTransaction(input)
  \/ \E id \in TxnIds : EventsLeft /\ MarkDeleted(id)
  \/ \E caller \in {"provider", "auto", "manual"} : StartSync(caller)
  \/ PhaseBegin
  \/ PullEnd
  \/ PushEnd
  \/ SyncReturn
  \/ Logout
  \/ \E id \in TxnIds, row \in OtherDeviceRows :
       EventsLeft /\ OtherDeviceWrite(id, row)

Spec == Init /\ [][Next]_vars

----------------------------------------------------------------------------
(* Properties of the sync engine *)

PhaseOrder == <<"pullCategories", "pullTransactions", "pushCategories", "pushTransactions">>

PhaseIndex(p) == CHOOSE i \in 1 .. 4 : PhaseOrder[i] = p

Before(p) == {q \in Phases : PhaseIndex(q) < PhaseIndex(p)}

After(p) == {q \in Phases : PhaseIndex(q) > PhaseIndex(p)}

Started(p) == sync.attempts[p] > 0

Failed(p) == sync.res[p].kind = "result" /\ ~sync.res[p].success

\* C1: in a syncAll invocation a phase is started only once every phase before
\* it in the order pull categories, pull transactions, push categories, push
\* transactions has returned success, and no push request is issued before
\* both pulls have succeeded
C1_PhasesInOrder ==
  /\ \A p \in Phases :
       Started(p) \/ sync.pc = p => \A q \in Before(p) : sync.res[q] = Success
  /\ \A p \in Phases : ~Started(p) => sync.res[p] = NoResult
  /\ \A p \in {"pushCategories", "pushTransactions"} :
       p \in sync.requested =>
         /\ sync.res["pullCategories"] = Success
         /\ sync.res["pullTransactions"] = Success

C1_Witness ==
  /\ sync.pc = "done"
  /\ \A p \in Phases : sync.res[p] = Success
  /\ sync.requested = Phases

\* C3: once a phase of syncAll has failed, no later phase has started, issued
\* a remote request or written to the local store, the failed phase has run
\* once, and syncAll returns that phase's result
C3_FailureAborts ==
  /\ \A p \in Phases : sync.attempts[p] <= 1
  /\ \A p \in Phases :
       Failed(p) =>
         /\ sync.pc = "done"
         /\ sync.ret = sync.res[p]
         /\ \A q \in After(p) :
              ~Started(q) /\ q \notin sync.requested /\ q \notin sync.wrote

C3_Witness ==
  /\ sync.pc = "done"
  /\ sync.res["pullTransactions"] = Failure("Not authenticated")
  /\ "pullCategories" \in sync.wrote

C3_WitnessRemoteError ==
  /\ sync.pc = "done"
  /\ sync.res["pushCategories"] = Failure("remote error")
  /\ sync.applied # {}

\* C4: no phase and no syncAll invocation ends by throwing: whatever the auth
\* lookup, the remote call and the local upserts do, each phase that has
\* returned gave a result object, and so did a finished syncAll
C4_NeverThrows ==
  /\ \A p \in Phases : sync.res[p].kind # "thrown"
  /\ sync.ret.kind # "thrown"
  /\ sync.pc = "done" => sync.ret.kind = "result"
  /\ \A p \in Phases :
       Started(p) /\ sync.pc # p => sync.res[p].kind = "result"

C4_Witness ==
  /\ sync.pc = "done"
  /\ sync.ret = Failure("exception")
  /\ "pullTransactions" \in sync.wrote

\* the pullTransactions request leaves in this step
RequestsTransactions ==
  /\ sync.pc = "pullTransactions" /\ sync.step = "begin"
  /\ sync'.pc = "pullTransactions" /\ sync'.step = "await"

\* pullTransactions ends in this step
PullsTransactions ==
  /\ sync.pc = "pullTransactions" /\ sync.step = "await"
  /\ sync'.pc # "pullTransactions"

\* C5: syncAll passes since = lastSyncAt exactly when isInitialSync is false
\* and a lastSyncAt is supplied; pullTransactions with since = T requests the
\* authenticated user's rows with updated_at > T and only those, all of the
\* user's rows without since, and writes to the local store no row of another
\* user and none with updated_at <= T
C5_IncrementalPullFilter ==
  [][/\ sync'.pc # "idle" =>
          /\ sync'.since # Null <=> ~sync'.isInitialSync /\ sync'.lastSyncAt # Null
          /\ sync'.since # Null => sync'.since = sync'.lastSyncAt
     /\ RequestsTransactions =>
          DOMAIN sync'.data =
            {id \in DOMAIN rTxns :
               /\ rTxns[id].user_id = session
               /\ sync.since = Null \/ rTxns[id].updated_at > sync.since}
     /\ PullsTransactions =>
          /\ \A r \in sync'.applied :
               /\ r.user_id = sync.user
               /\ sync.since # Null => r.updated_at > sync.since
          /\ \A id \in DOMAIN txns' :
               id \notin DOMAIN txns \/ txns'[id] # txns[id]
                 => \E r \in sync'.applied : r.id = id
     /\ ~PullsTransactions => sync'.applied \subseteq sync.applied]_vars

C5_Witness ==
  /\ sync.since = 0
  /\ sync.res["pullTransactions"] = Success
  /\ sync.applied # {}
  /\ \E id \in DOMAIN rTxns : rTxns[id].user_id # sync.user

C5_WitnessFullFetch ==
  /\ sync.pc = "pushCategories"
  /\ sync.isInitialSync /\ sync.lastSyncAt # Null /\ sync.since = Null
  /\ \E r \in sync.applied : r.updated_at <= sync.lastSyncAt

\* the content a transaction and a remote row share
ContentOf(txn) ==
  [type |-> txn.type, amountCents |-> txn.amountCents,
   categoryId |-> txn.categoryId, deleted |-> txn.deleted]

RowContent(row) ==
  [type |-> row.type, amountCents |-> row.amount_cents,
   categoryId |-> row.category_id, deleted |-> (row.deleted_at # Null)]

\* the records of the user that were older locally than on the remote when
\* the cycle started
RemoteNewer ==
  {id \in DOMAIN sync.local0 \cap DOMAIN sync.remote0 :
     /\ sync.remote0[id].user_id = sync.user
     /\ sync.remote0[id].updated_at > sync.local0[id].updatedAt}

\* a successful syncAll during which neither this device nor another one
\* wrote
QuietSuccessfulCycle ==
  /\ sync.pc = "done"
  /\ sync.ret = Success
  /\ budget = sync.budget0
  /\ remoteWrites = sync.writes0

\* C2: after a successful syncAll without a local mutation during the cycle,
\* initial or incremental with any lastSyncAt, a record whose remote row was
\* more recent than the local record (t2 > t1) matches the remote row locally,
\* and the push has not replaced the remote row by the older local values
C2_PullWins ==
  QuietSuccessfulCycle =>
    \A id \in RemoteNewer :
      /\ id \in DOMAIN txns /\ ContentOf(txns[id]) = RowContent(sync.remote0[id])
      /\ id \in DOMAIN rTxns /\ RowContent(rTxns[id]) = RowContent(sync.remote0[id])

\* the same for the cycles that fetch every row of the user
C2_PullWinsOnFullFetch ==
  QuietSuccessfulCycle /\ sync.since = Null =>
    \A id \in RemoteNewer :
      /\ id \in DOMAIN txns /\ ContentOf(txns[id]) = RowContent(sync.remote0[id])
      /\ id \in DOMAIN rTxns /\ RowContent(rTxns[id]) = RowContent(sync.remote0[id])

C2_WitnessFullFetch ==
  QuietSuccessfulCycle /\ sync.since = Null /\ RemoteNewer # {}

----------------------------------------------------------------------------
(* Properties of the stored amounts *)

\* C11: every transaction in the local store has amountCents >= 1, whichever
\* of saveTransaction, pullTransactions and the realtime listener wrote it
C11_AmountAtLeastOneCent ==
  \A id \in DOMAIN txns : txns[id].amountCents >= 1

\* the same for the records saveTransaction wrote last
C11_SavedAmountAtLeastOneCent ==
  \A id \in DOMAIN txns :
    last.op = "saveTransaction" /\ last.ret = id => txns[id].amountCents >= 1

C11_WitnessSaved ==
  /\ last.op = "saveTransaction" /\ last.ret \in DOMAIN txns
  /\ txns[last.ret].amountCents = 2

----------------------------------------------------------------------------
(* The transactions service saving drafts, with and without a post-save hook *)

SaveInputs ==
  [id : DOMAIN txns \cup {NoId}, type : TransactionTypes \cup {"transfer"},
   amount : AmountInputs, categoryId : {"cat-food", NoId},
   timestamp : {Null, 0}]

NextSave ==
  \/ TickDay
  \/ RegisterSyncCallback
  \/ \E input \in SaveInputs : SaveTransaction(input)
  \/ \E id \in TxnIds : MarkDeleted(id)

SpecSave == InitShipped /\ [][NextSave]_vars

\* what the store and the hook look like after saveTransaction(input)
Saved(input) ==
  IF ~DraftAccepted(input)
  THEN /\ last'.ret = "ValidationError"
       /\ txns' = txns
       /\ hook' = hook
  ELSE LET id == last'.ret IN
       /\ input.id # NoId => id = input.id
       /\ input.id = NoId => id \notin DOMAIN txns
       /\ DOMAIN txns' = DOMAIN txns \cup {id}
       /\ \A other \in DOMAIN txns \ {id} : txns'[other] = txns[other]
       /\ txns'[id].type = input.type
       /\ txns'[id].amountCents = (Abs(input.amount) + 5) \div 10
       /\ txns'[id].categoryId = input.categoryId
       /\ txns'[id].timestamp =
            IF input.timestamp = Null THEN now ELSE input.timestamp
       /\ txns'[id].syncStatus = "local"
       /\ ~txns'[id].deleted
       /\ hook'.calls = hook.calls + (IF hook.registered THEN 1 ELSE 0)
       /\ hook.registered => hook'.seen

C16_WitnessRejected ==
  /\ last.op = "saveTransaction" /\ last.ret = "ValidationError"
  /\ hook.registered /\ hook.calls = 0
  /\ txns # EmptyStore

RequestsPush ==
  /\ sync.pc = "pushTransactions" /\ sync.step = "begin"
  /\ sync'.pc = "pushTransactions" /\ sync'.step = "await"

\* the remote takes the pushTransactions request in this step
PushesTransactions ==
  /\ sync.pc = "pushTransactions" /\ sync.step = "await"
  /\ sync'.res["pushTransactions"] = Success

\* C14: pushTransactions sends every transaction of the local store, tombstones
\* included, in one upsert keyed by id, each row tagged with the authenticated
\* user's id, with deleted_at non-null for a tombstone and null otherwise
C14_PushSendsEveryTransaction ==
  [][/\ RequestsPush =>
          /\ DOMAIN sync'.data = DOMAIN txns
          /\ \A id \in DOMAIN txns :
               /\ sync'.data[id].user_id = session
               /\ session # NoUser
               /\ txns[id].deleted <=> sync'.data[id].deleted_at # Null
               /\ sync'.data[id].type = txns[id].type
               /\ sync'.data[id].amount_cents = txns[id].amountCents
               /\ sync'.data[id].category_id = txns[id].categoryId
          /\ sync.attempts["pushTransactions"] = 0
     /\ PushesTransactions =>
          /\ DOMAIN rTxns' = DOMAIN rTxns \cup DOMAIN sync.data
          /\ \A id \in DOMAIN sync.data : rTxns'[id] = sync.data[id]
          /\ \A id \in DOMAIN rTxns \ DOMAIN sync.data : rTxns'[id] = rTxns[id]
     /\ rTxns' # rTxns /\ remoteWrites' = remoteWrites => PushesTransactions]_vars

C14_Witness ==
  /\ sync.pc = "done" /\ sync.ret = Success
  /\ \E id \in DOMAIN rTxns : rTxns[id].user_id = "A" /\ rTxns[id].deleted_at # Null
  /\ \E id \in DOMAIN rTxns : rTxns[id].user_id = "A" /\ rTxns[id].deleted_at = Null
  /\ DOMAIN txns \subseteq DOMAIN rTxns

----------------------------------------------------------------------------
(* Categories between the local store and the remote: pushCategories and *)
(* pullCategories called on their own                                    *)

\* pushCategories(): the remote's answer is ok or an error
PushCategoriesCall ==
  /\ Budget
  /\ budget' = budget + 1
  /\ session # NoUser
  /\ LET rows == localCategories(cats, session) IN
     \E answer \in {"ok", "error"} :
       /\ rCats' = IF answer = "ok" /\ DOMAIN rows # {}
                   THEN remoteUpsertCategories(rCats, rows, now) ELSE rCats
       /\ last' = Did("pushCategories", NoId, NoId, NoId,
                      IF DOMAIN rows = {} THEN "ok" ELSE answer,
                      Cardinality(DOMAIN rows))
  /\ UNCHANGED <<txns, cats, now, writer, ui, itemCount, config, provider,
                 prefs, seeding, hook>>
  /\ UNCHANGED <<rTxns, session, lastSyncAt, channel, sync, cycles, remoteWrites>>

\* pullCategories(): the remote's answer is the rows or an error
PullCategoriesCall ==
  /\ Budget
  /\ budget' = budget + 1
  /\ session # NoUser
  /\ LET data == [id \in selectCategories(rCats, session) |-> rCats[id]] IN
     \E answer \in {"ok", "error"} :
       /\ cats' = IF answer = "ok"
                  THEN mergeCategories(cats, data, DOMAIN data, now) ELSE cats
       /\ last' = Did("pullCategories", NoId, NoId, NoId, answer,
                      Cardinality(DOMAIN data))
  /\ itemCount' = Memo(txns, cats')
  /\ UNCHANGED <<txns, now, writer, ui, config, provider, prefs, seeding, hook>>
  /\ UNCHANGED remoteVars

OtherCategoryIds == {"u2"}

OtherDeviceCategories ==
  [user_id : Users, name : {"Fun"}, icon : {"apps-outline"},
   deleted_at : {Null, now}, created_at : {now}, updated_at : {now}]

\* another device pushes a category of its own
OtherDeviceCategory(id, row) ==
  /\ remoteWrites < MaxEvents
  /\ remoteWrites' = remoteWrites + 1
  /\ id \notin DOMAIN rCats
  /\ rCats' = Put(rCats, id, row)
  /\ UNCHANGED <<rTxns, session, lastSyncAt, channel, sync, cycles>>
  /\ UNCHANGED localVars

NextCategorySync ==
  \/ TickDay
  \/ \E name \in CategoryNames : AddCategory(name, "apps-outline")
  \/ PushCategoriesCall
  \/ PullCategoriesCall
  \/ \E id \in OtherCategoryIds, row \in OtherDeviceCategories :
       OtherDeviceCategory(id, row)

SpecCategorySync == InitShipped /\ [][NextCategorySync]_vars

\* pullCategories returns success in this step
PullsCategories == last'.op = "pullCategories" /\ last'.ret = "ok" /\ budget' # budget

\* C15: pullCategories upserts every fetched category, whether or not the id
\* exists locally, with userDefined true and with createdAt and updatedAt
\* equal to the remote record's created_at and updated_at
C15_PullCategoriesTakesRemoteTimes ==
  [][PullsCategories =>
       \A id \in selectCategories(rCats, session) :
         /\ id \in DOMAIN cats'
         /\ cats'[id].name = rCats[id].name
         /\ cats'[id].icon = rCats[id].icon
         /\ cats'[id].userDefined
         /\ cats'[id].createdAt = rCats[id].created_at
         /\ cats'[id].updatedAt = rCats[id].updated_at]_vars

\* the same, with createdAt taken from the remote only for the ids new to the
\* local store and kept for the others
C15_PullCategoriesKeepsLocalCreatedAt ==
  [][PullsCategories =>
       /\ \A id \in selectCategories(rCats, session) :
            /\ id \in DOMAIN cats'
            /\ cats'[id].name = rCats[id].name
            /\ cats'[id].icon = rCats[id].icon
            /\ cats'[id].userDefined
            /\ cats'[id].createdAt =
                 IF id \in DOMAIN cats THEN cats[id].createdAt
                 ELSE rCats[id].created_at
            /\ cats'[id].updatedAt = rCats[id].updated_at
       /\ \A id \in DOMAIN cats' \ selectCategories(rCats, session) :
            id \in DOMAIN cats /\ cats'[id] = cats[id]]_vars

C15_WitnessFetched ==
  /\ last.op = "pullCategories" /\ last.ret = "ok" /\ last.n = 1
  /\ "u2" \in DOMAIN cats /\ cats["u2"].createdAt = 1
  /\ "u1" \in DOMAIN cats

----------------------------------------------------------------------------
(* Default categories: the seeding effect of every component that uses the *)
(* categories service, on a database that starts empty                     *)

DEFAULT_CATEGORIES ==
  [id \in DefaultCategoryIds |->
     CASE id = "cat-food" -> [name |-> "Food & Drink", icon |-> "fast-food-outline"]
       [] id = "cat-transport" -> [name |-> "Transport", icon |-> "bus-outline"]
       [] id = "cat-entertainment" ->
            [name |-> "Entertainment", icon |-> "game-controller-outline"]
       [] id = "cat-school" -> [name |-> "School", icon |-> "book-outline"]
       [] id = "cat-shopping" -> [name |-> "Shopping", icon |-> "cart-outline"]
       [] OTHER -> [name |-> "Other", icon |-> "apps-outline"]]

DefaultCategory(id, t) ==
  [name |-> DEFAULT_CATEGORIES[id].name, icon |-> DEFAULT_CATEGORIES[id].icon,
   userDefined |-> FALSE, createdAt |-> t, updatedAt |-> t]

seedAllDefaults(store, t) ==
  [id \in DOMAIN store \cup DefaultCategoryIds |->
     IF id \in DefaultCategoryIds THEN DefaultCategory(id, t) ELSE store[id]]

\* DEFAULT_CATEGORIES.forEach: create the category unless its id exists
seedDefaults(store, t) ==
  [id \in DOMAIN store \cup DefaultCategoryIds |->
     IF id \in DOMAIN store THEN store[id] ELSE DefaultCategory(id, t)]

\* the components that call useCategoriesService()
Components == {"HistoryScreen", "ManageCategoriesScreen"}

\* a component mounts: its seededRef is false, so its effect seeds
MountService(c) ==
  /\ c \notin seeding.instances
  /\ seeding' = [instances |-> seeding.instances \cup {c}, seeded |-> TRUE]
  /\ cats' = seedDefaults(cats, now)
  /\ itemCount' = Memo(txns, cats')
  /\ last' = Did("seedDefaults", NoId, NoId, NoId, c,
                 Cardinality(DefaultCategoryIds \ DOMAIN cats))
  /\ UNCHANGED <<txns, now, writer, ui, budget, config, provider, prefs, hook>>
  /\ UNCHANGED remoteVars

\* the effect of a mounted component runs again: seededRef is true, it returns
SeedEffectAgain(c) ==
  /\ c \in seeding.instances
  /\ last' = Did("seedDefaults", NoId, NoId, NoId, "skipped", 0)
  /\ UNCHANGED <<txns, cats, now, writer, ui, itemCount, budget, config,
                 provider, prefs, seeding, hook>>
  /\ UNCHANGED remoteVars

\* a component unmounts (all of them on an app restart): its ref is gone
UnmountService(c) ==
  /\ c \in seeding.instances
  /\ seeding' = [seeding EXCEPT !.instances = @ \ {c}]
  /\ ui' = IF c = "ManageCategoriesScreen" THEN NoUi ELSE ui
  /\ UNCHANGED <<txns, cats, now, last, writer, itemCount, budget, config,
                 provider, prefs, hook>>
  /\ UNCHANGED remoteVars

\* a database without any record, before any component has mounted
InitFresh ==
  /\ txns = EmptyStore
  /\ writer = EmptyStore
  /\ cats = EmptyStore
  /\ itemCount = EmptyStore
  /\ ui = NoUi
  /\ now = 0
  /\ last = NoOp
  /\ budget = 0
  /\ config = PurgeDisabled
  /\ rTxns = EmptyStore
  /\ rCats = EmptyStore
  /\ session = NoUser
  /\ lastSyncAt = Null
  /\ channel = FALSE
  /\ sync = NoSync
  /\ cycles = 0
  /\ remoteWrites = 0
  /\ hook = NoHook
  /\ provider = NoProvider
  /\ prefs = NoPrefs
  /\ seeding = NoSeeding

Manages == "ManageCategoriesScreen" \in seeding.instances

NextSeed ==
  \/ TickDay
  \/ \E c \in Components : MountService(c)
  \/ \E c \in Components : SeedEffectAgain(c)
  \/ \E c \in Components : UnmountService(c)
  \/ \E name \in CategoryNames : Manages /\ AddCategory(name, "apps-outline")
  \/ \E item \in {"cat-food", "u1"} : Manages /\ HandleDeleteCategory(item)
  \/ Manages /\ AlertDelete

SpecSeed == InitFresh /\ [][NextSeed]_vars

\* the seeding effect of a mounting component runs in this step
SeedRuns ==
  /\ last'.op = "seedDefaults"
  /\ seeding'.instances # seeding.instances
  /\ Cardinality(seeding'.instances) > Cardinality(seeding.instances)

\* C17: once the default set has been seeded into a database, no later run of
\* the seed routine creates a category in it
C17_SeededOnce ==
  [][SeedRuns /\ seeding.seeded => DOMAIN cats' \subseteq DOMAIN cats]_vars

\* the same while every default category is still in the database
C17_NoSeedWhileDefaultsPresent ==
  [][SeedRuns /\ DefaultCategoryIds \subseteq DOMAIN cats => cats' = cats]_vars

\* C18: on a fresh store the seed routine leaves exactly the 6 defined default
\* categories, each with userDefined false; whenever it runs, every category
\* record that existed is unchanged and each id is stored once
C18_SeedIdempotent ==
  [][SeedRuns =>
       /\ cats = EmptyStore =>
            /\ DOMAIN cats' = DefaultCategoryIds
            /\ Cardinality(DOMAIN cats') = 6
            /\ \A id \in DOMAIN cats' :
                 /\ ~cats'[id].userDefined
                 /\ cats'[id].name = DEFAULT_CATEGORIES[id].name
                 /\ cats'[id].icon = DEFAULT_CATEGORIES[id].icon
       /\ \A id \in DOMAIN cats : id \in DOMAIN cats' /\ cats'[id] = cats[id]
       /\ DOMAIN cats' = DOMAIN cats \cup DefaultCategoryIds
       /\ DefaultCategoryIds \subseteq DOMAIN cats => cats' = cats]_vars

C18_Witness ==
  /\ last.op = "seedDefaults" /\ last.n = 0
  /\ seeding.instances = Components
  /\ DOMAIN cats = DefaultCategoryIds \cup {"u1"}
  /\ now > cats["cat-food"].createdAt

C18_WitnessFresh ==
  /\ last.op = "seedDefaults" /\ last.n = 6
  /\ DOMAIN cats = DefaultCategoryIds

----------------------------------------------------------------------------
(* db/repository.ts usePreferences: the Preferences record with the fixed id *)
(* 'preferences' and the hook's rendered view of it                        *)

PreferenceCalls == {"setTheme", "touchLastOpened", "updatePreferences"}

PreferenceUpdates == [theme : {"light", "dark"}, currency : {"USD", "EUR"}]

\* ensurePreferences(): realm.create without an update mode when the hook
\* rendered without a record; it throws when the primary key exists
ensureThrows(p) == ~p.rendered /\ p.records > 0

ensurePreferences(p, t) ==
  IF p.rendered \/ p.records > 0 THEN p
  ELSE [p EXCEPT !.records = 1, !.theme = "light", !.currency = "USD",
                 !.lastOpenedAt = t]

\* the write of setTheme / touchLastOpened / updatePreferences on the record
\* found by objectForPrimaryKey
writePreferences(p, call, updates, t) ==
  IF p.records = 0 THEN p
  ELSE [p EXCEPT
          !.theme = IF call \in {"setTheme", "updatePreferences"}
                    THEN updates.theme ELSE @,
          !.currency = IF call = "updatePreferences" THEN updates.currency ELSE @,
          !.lastOpenedAt = t]

\* setTheme(theme), touchLastOpened() or updatePreferences(updates)
PreferencesCall(call, updates) ==
  /\ Budget
  /\ budget' = budget + 1
  /\ IF ensureThrows(prefs)
     THEN /\ prefs' = prefs
          /\ last' = Did(call, NoId, NoId, NoId, "throws", prefs.records)
     ELSE /\ prefs' = writePreferences(ensurePreferences(prefs, now), call,
                                       updates, now)
          /\ last' = Did(call, NoId, NoId, NoId, "returns", prefs'.records)
  /\ UNCHANGED <<txns, cats, now, writer, ui, itemCount, config, provider,
                 seeding, hook>>
  /\ UNCHANGED remoteVars

\* the hook renders again: useObject gives it the record that exists now
PreferencesRender ==
  /\ prefs.rendered # (prefs.records > 0)
  /\ prefs' = [prefs EXCEPT !.rendered = (prefs.records > 0)]
  /\ UNCHANGED <<txns, cats, now, last, writer, ui, itemCount, budget, config,
                 provider, seeding, hook>>
  /\ UNCHANGED remoteVars

NextPreferences ==
  \/ TickDay
  \/ \E call \in PreferenceCalls, updates \in PreferenceUpdates :
       PreferencesCall(call, updates)
  \/ PreferencesRender

SpecPreferences == InitFresh /\ [][NextPreferences]_vars

\* C19: at most one Preferences record exists; after the first call of
\* setTheme, touchLastOpened or updatePreferences exactly one exists; and
\* each call completes without error, also when it follows another call
\* before the hook has rendered again with the record
C19_PreferencesSingleton ==
  /\ prefs.records <= 1
  /\ last.op \in PreferenceCalls => prefs.records = 1
  /\ last.op \in PreferenceCalls => last.ret = "returns"

\* the record is a singleton all the same, and a call throws only when the
\* record existed while the hook had rendered without it
C19_SingletonRecord ==
  /\ prefs.records <= 1
  /\ last.op \in PreferenceCalls => prefs.records = 1
  /\ last.op \in PreferenceCalls /\ last.ret = "throws" => last.n = 1

C19_WitnessRendered ==
  /\ last.op = "updatePreferences" /\ last.ret = "returns"
  /\ prefs.rendered /\ prefs.records = 1
  /\ prefs.theme = "dark" /\ prefs.currency = "EUR"

----------------------------------------------------------------------------
(* components/SyncProvider.tsx: the effect on authService.status, the     *)
(* promise of each syncAll() it starts and the channels it subscribes     *)

MaxSyncs == 3          \* syncAll() calls the provider starts in one behaviour

AuthStatuses == {"authenticated", "guest"}

\* the function stored in realtimeUnsubscribe.current: removes its own channel
unsubscribe(p) == [p EXCEPT !.channels = p.channels \ {p.realtimeUnsubscribe}]

\* the effect's cleanup: calls realtimeUnsubscribe.current, the ref keeps it
cleanup(p) == IF p.realtimeUnsubscribe # 0 THEN unsubscribe(p) ELSE p

\* the effect needs to call syncAll()
TriggersSync(p) == p.status = "authenticated" /\ ~p.hasInitialSynced

\* the effect's body: syncAll() when authenticated and not yet synced,
\* on guest the channel of the ref is removed and both refs are reset
effectBody(p) ==
  IF TriggersSync(p)
  THEN [p EXCEPT !.started = p.started + 1,
                 !.pending = p.pending \cup {p.started + 1},
                 !.epochOf = Append(p.epochOf, p.epoch)]
  ELSE IF p.status = "guest"
       THEN [cleanup(p) EXCEPT !.realtimeUnsubscribe = 0,
                               !.hasInitialSynced = FALSE]
       ELSE p

\* a render with changed dependencies: the cleanup of the last run, then the body
runEffect(p) == effectBody(cleanup(p))

\* the .then() callback of a syncAll(): no test of the status or of the mount
resolved(p, promise, success) ==
  LET q == [p EXCEPT !.pending = p.pending \ {promise}]
  IN IF success
     THEN [q EXCEPT !.hasInitialSynced = TRUE,
                    !.realtimeUnsubscribe = promise,
                    !.channels = q.channels \cup {promise},
                    !.synced = q.synced \cup {q.epoch}]
     ELSE q

ProviderFrame ==
  /\ UNCHANGED <<txns, cats, now, writer, ui, itemCount, budget, config,
                 prefs, seeding, hook>>
  /\ UNCHANGED <<rTxns, rCats, lastSyncAt, sync, cycles, remoteWrites>>

\* authService.status changes (getSession, onAuthStateChange): the effect runs
AuthChange(status) ==
  /\ provider.mounted
  /\ status # provider.status
  /\ LET p == [provider EXCEPT
                 !.status = status,
                 !.epoch = IF status = "authenticated" THEN provider.epoch + 1
                           ELSE provider.epoch]
     IN /\ TriggersSync(cleanup(p)) => provider.started < MaxSyncs
        /\ provider' = runEffect(p)
  /\ session' = IF status = "authenticated" THEN "A" ELSE NoUser
  /\ channel' = (provider'.channels # {})
  /\ last' = Did("authChange", NoId, NoId, NoId, status, 0)
  /\ ProviderFrame

\* syncAll or setupRealtimeSync is a new function after a render (their
\* callbacks depend on the store's collections): the effect runs again
EffectRerun ==
  /\ provider.mounted
  /\ provider.status \in AuthStatuses
  /\ TriggersSync(cleanup(provider)) => provider.started < MaxSyncs
  /\ provider' = runEffect(provider)
  /\ channel' = (provider'.channels # {})
  /\ last' = Did("effect", NoId, NoId, NoId, provider.status, 0)
  /\ UNCHANGED session
  /\ ProviderFrame

\* a syncAll() of the provider resolves; a logout during its last request
\* or an unmount does not keep it from succeeding
Resolve(promise, success) ==
  /\ promise \in provider.pending
  /\ provider' = resolved(provider, promise, success)
  /\ channel' = (provider'.channels # {})
  /\ last' = Did("syncAll", NoId, NoId, NoId,
                 IF success THEN "success" ELSE "failure", promise)
  /\ UNCHANGED session
  /\ ProviderFrame

\* the provider is unmounted: the cleanup of the last run
UnmountProvider ==
  /\ provider.mounted
  /\ provider' = [cleanup(provider) EXCEPT !.mounted = FALSE]
  /\ channel' = (provider'.channels # {})
  /\ last' = Did("unmount", NoId, NoId, NoId, "", 0)
  /\ UNCHANGED session
  /\ ProviderFrame

RealtimeRows ==
  [type : {"expense"}, amount_cents : {1}, category_id : {"cat-food"},
   timestamp : {0}, updated_at : {0}, deleted_at : {Null, 0}, user_id : {"A"}]

NextProvider ==
  \/ \E status \in AuthStatuses : AuthChange(status)
  \/ EffectRerun
  \/ \E promise \in 1 .. MaxSyncs, success \in BOOLEAN : Resolve(promise, success)
  \/ UnmountProvider
  \/ \E eventType \in {"INSERT", "DELETE"}, id \in {"t1"}, row \in RealtimeRows :
       OnTransactionChange(eventType, id, row)

SpecProvider == InitFresh /\ [][NextProvider]_vars

\* C12: a realtime channel is subscribed only after a syncAll() started on
\* authentication has succeeded: while the user is authenticated and no
\* syncAll() has succeeded since they became authenticated, no channel is
\* subscribed
C12_SubscribedOnlyAfterInitialSync ==
  provider.status = "authenticated" /\ provider.channels # {}
    => provider.epoch \in provider.synced

\* every channel is subscribed by the success branch of a syncAll() of the
\* provider, and a failed one subscribes none
C12_SubscribedOnlyOnSuccess ==
  [][provider'.channels \subseteq provider.channels
       \/ (last'.op = "syncAll" /\ last'.ret = "success"
           /\ last'.n \in provider.pending
           /\ provider'.channels = provider.channels \cup {last'.n})]_vars

\* a channel left from an earlier authentication while the next initial sync
\* is still in flight
C12_WitnessLeftOver ==
  /\ provider.status = "authenticated"
  /\ provider.epoch = 2
  /\ provider.pending # {}
  /\ provider.channels # {}

\* C13: once the provider has observed guest, or has been unmounted, none of
\* its channels is subscribed and no realtime event is applied to the store
C13_TornDown ==
  (provider.status = "guest" \/ ~provider.mounted)
    => /\ provider.channels = {}
       /\ ~channel

\* the channel of the ref is removed by the guest branch and by the cleanup
C13_RefChannelRemoved ==
  [][(last'.op \in {"authChange", "unmount"}
        /\ (provider'.status = "guest" \/ ~provider'.mounted))
       => provider.realtimeUnsubscribe \notin provider'.channels]_vars

\* a realtime event is applied after the provider was unmounted
C13_WitnessEventAfterUnmount ==
  /\ ~provider.mounted
  /\ last.op = "realtime"
  /\ "t1" \in DOMAIN txns

----------------------------------------------------------------------------
(* db/repository.ts and services/categories.ts called with any id *)

\* renameCategory that does not test for the record
renameCategoryUpserting(store, id, name, t) ==
  upsertCategory(store,
    [id |-> id, name |-> name,
     icon |-> IF id \in DOMAIN store THEN store[id].icon ELSE "apps-outline",
     userDefined |-> IF id \in DOMAIN store THEN store[id].userDefined ELSE TRUE,
     createdAt |-> IF id \in DOMAIN store THEN store[id].createdAt ELSE Null,
     updatedAt |-> Null], t)

\* the Category objects after renameCategory(id, name)
renameCategory(store, id, name, t) ==
  IF id \notin DOMAIN store THEN store
  ELSE upsertCategory(store,
         [id |-> id, name |-> name, icon |-> store[id].icon,
          userDefined |-> store[id].userDefined,
          createdAt |-> store[id].createdAt, updatedAt |-> Null], t)

\* renameCategory(id, name) of the categories service
RenameCategory(id, name) ==
  /\ Budget
  /\ budget' = budget + 1
  /\ cats' = renameCategory(cats, id, name, now)
  /\ itemCount' = Memo(txns, cats')
  /\ last' = Did("renameCategory", NoId, id, NoId,
                 IF id \in DOMAIN cats THEN "true" ELSE "false", 0)
  /\ UNCHANGED <<txns, writer, ui>>
  /\ UNCHANGED localFrame
  /\ UNCHANGED remoteVars

\* removeCategory(id, replacementId) called by any component
RemoveCategory(id, replacementId) ==
  /\ Budget
  /\ budget' = budget + 1
  /\ removeCategory(id, replacementId)
  /\ UNCHANGED ui
  /\ UNCHANGED localFrame
  /\ UNCHANGED remoteVars

NextRepository ==
  \/ TickDay
  \/ \E input \in FormInputs : SaveTransaction(input)
  \/ \E id \in TxnIds : MarkDeleted(id)
  \/ \E id \in TxnIds : RemovePermanently(id)
  \/ \E name \in CategoryNames : AddCategory(name, "apps-outline")
  \/ \E id \in CategoryIds, name \in CategoryNames : RenameCategory(id, name)
  \/ \E id \in CategoryIds, replacementId \in {NoId, "cat-other"} :
       RemoveCategory(id, replacementId)

SpecRepository == InitShipped /\ [][NextRepository]_vars

TransactionOps == {"softDeleteTransaction", "purgeTransaction"}
CategoryOps == {"removeCategory", "renameCategory"}

\* the step is one of the four operations called with an id not in the store
OnMissingId ==
  /\ budget' # budget
  /\ \/ last'.op \in TransactionOps /\ last'.id \notin DOMAIN txns
     \/ last'.op \in CategoryOps /\ last'.cat \notin DOMAIN cats

\* C21: softDeleteTransaction, purgeTransaction, deleteCategory and
\* renameCategory called with an id that is not in the store return false and
\* leave every transaction and every category unchanged
C21_MissingIdIsNoOp ==
  [][OnMissingId => /\ last'.ret = "false"
                    /\ txns' = txns
                    /\ cats' = cats]_vars

\* renameCategory has returned false for a missing id, with records in the store
C21_Witness ==
  /\ last.op = "renameCategory"
  /\ last.ret = "false"
  /\ last.cat \notin DOMAIN cats
  /\ txns # EmptyStore

C21_WitnessSoftDelete ==
  /\ last.op = "softDeleteTransaction"
  /\ last.ret = "false"
  /\ txns # EmptyStore

C21_WitnessPurge ==
  /\ last.op = "purgeTransaction"
  /\ last.ret = "false"
  /\ txns # EmptyStore

C21_WitnessDeleteCategory ==
  /\ last.op = "removeCategory"
  /\ last.ret = "false"
  /\ last.repl # NoId
  /\ txns # EmptyStore

----------------------------------------------------------------------------
(* services/maintenance.ts in the build as shipped: the purge is disabled *)

\* schedulePurge(): returns at once when disabled, only logs when enabled
SchedulePurge ==
  /\ last' = Did("schedulePurge", NoId, NoId, NoId,
                 IF ~purgeEnabled(config) THEN "disabled" ELSE "not implemented", 0)
  /\ last' # last
  /\ UNCHANGED <<txns, cats, writer, ui, itemCount, budget>>
  /\ UNCHANGED localFrame
  /\ UNCHANGED remoteVars

NextShipped ==
  \/ TickDay
  \/ TickRetention
  \/ \E input \in FormInputs : SaveTransaction(input)
  \/ \E id \in TxnIds : MarkDeleted(id)
  \/ \E id \in TxnIds, row \in FormRows :
       OnTransactionChange("UPDATE", id, row)
  \/ RunPurge
  \/ SchedulePurge

SpecShipped == InitShipped /\ [][NextShipped]_vars

\* C22: with ENABLE_TOMBSTONE_PURGE false, purgeOldTombstones and runPurge
\* return 0, schedulePurge does nothing, and no record of the store is removed
\* or changed, whatever the store holds
C22_DisabledPurgeIsNoOp ==
  [][(~config.ENABLE_TOMBSTONE_PURGE /\ (RunPurge \/ SchedulePurge))
       => /\ last'.n = 0
          /\ last'.ret = "disabled"
          /\ txns' = txns
          /\ cats' = cats
          /\ writer' = writer]_vars

\* the disabled purge has run over a store holding a tombstone that an enabled
\* purge would remove
C22_Witness ==
  /\ ~config.ENABLE_TOMBSTONE_PURGE
  /\ last.op = "purgeOldTombstones"
  /\ EligibleForPurge(txns, now) # {}

C22_WitnessSchedule ==
  /\ ~config.ENABLE_TOMBSTONE_PURGE
  /\ last.op = "schedulePurge"
  /\ EligibleForPurge(txns, now) # {}

----------------------------------------------------------------------------
(* Properties of whole sync cycles *)

\* the records edited on this device and not pushed yet whose remote row was
\* older when the cycle started
LocalAhead ==
  {id \in DOMAIN sync.local0 \cap DOMAIN sync.remote0 :
     /\ sync.local0[id].syncStatus = "local"
     /\ sync.remote0[id].user_id = sync.user
     /\ sync.remote0[id].updated_at < sync.local0[id].updatedAt}

LocalEditKept(id) ==
  /\ id \in DOMAIN txns /\ ContentOf(txns[id]) = ContentOf(sync.local0[id])
  /\ id \in DOMAIN rTxns /\ RowContent(rTxns[id]) = ContentOf(sync.local0[id])

\* C23: after a successful syncAll, a record that was edited locally and not
\* pushed, with an older row on the remote, carries the local edit both in
\* the local store and on the remote
C23_LocalEditSurvives ==
  QuietSuccessfulCycle => \A id \in LocalAhead : LocalEditKept(id)

\* the same for the cycles whose pull does not fetch the older row
C23_LocalEditSurvivesUnfetched ==
  QuietSuccessfulCycle /\ sync.since # Null =>
    \A id \in LocalAhead :
      sync.remote0[id].updated_at <= sync.since => LocalEditKept(id)

C23_WitnessUnfetched ==
  /\ QuietSuccessfulCycle /\ sync.since # Null
  /\ \E id \in LocalAhead :
       /\ sync.remote0[id].updated_at <= sync.since
       /\ ContentOf(sync.local0[id]) # RowContent(sync.remote0[id])

\* the rows of the user another device had written before the cycle started
\* and this device had never stored
RemoteOnly ==
  {id \in DOMAIN sync.remote0 \ DOMAIN sync.local0 :
     sync.remote0[id].user_id = sync.user}

\* a successful incremental cycle without writes of either side during it
QuietIncrementalCycle == QuietSuccessfulCycle /\ sync.since # Null

\* C24: an incremental syncAll misses no remote change: after a successful
\* incremental cycle every row another device wrote before the cycle is in
\* the local store, whatever its updated_at is (a later cycle filters with a
\* later lastSyncAt, so a row left out now is left out from then on)
C24_IncrementalPullMissesNothing ==
  QuietIncrementalCycle =>
    \A id \in RemoteOnly :
      id \in DOMAIN txns /\ ContentOf(txns[id]) = RowContent(sync.remote0[id])

\* the rows an incremental cycle does apply are those updated after lastSyncAt
C24_IncrementalPullAppliesNewer ==
  QuietIncrementalCycle =>
    \A id \in RemoteOnly :
      sync.remote0[id].updated_at > sync.since
        => id \in DOMAIN txns /\ ContentOf(txns[id]) = RowContent(sync.remote0[id])

C24_WitnessNewer ==
  /\ QuietIncrementalCycle
  /\ \E id \in RemoteOnly : sync.remote0[id].updated_at > sync.since

----------------------------------------------------------------------------
(* Properties of the SyncProvider's cycles and channels *)

\* C25: at most one syncAll cycle is in flight at any time; in particular a
\* re-run of the SyncProvider effect while its initial sync is pending starts
\* no second cycle
C25_OneCycleInFlight == Cardinality(provider.pending) <= 1

\* once hasInitialSynced is set the provider starts no cycle
C25_NoCycleStartedOnceSynced ==
  [][provider.hasInitialSynced /\ provider'.hasInitialSynced
       => provider'.started = provider.started]_vars

C25_WitnessSynced ==
  /\ provider.hasInitialSynced
  /\ provider.status = "authenticated"
  /\ last.op = "effect"

\* C28: a re-run of the provider's effect caused by a change of its
\* dependencies, with the user authenticated, hasInitialSynced set and the
\* channel subscribed, leaves exactly one channel subscribed
C28_RerunKeepsChannel ==
  [][(/\ EffectRerun
      /\ provider.status = "authenticated"
      /\ provider.hasInitialSynced
      /\ provider.channels # {})
       => Cardinality(provider'.channels) = 1]_vars

\* without a re-run, the channel stays from the resolution on until the
\* status changes or the provider is unmounted
C28_ChannelKeptBetweenEffects ==
  [][(\E promise \in provider.pending, success \in BOOLEAN :
        Resolve(promise, success))
       => provider.channels \subseteq provider'.channels]_vars

C28_WitnessResolved ==
  /\ provider.status = "authenticated"
  /\ provider.hasInitialSynced
  /\ Cardinality(provider.channels) = 1
  /\ last.op = "syncAll" /\ last.ret = "failure"

----------------------------------------------------------------------------
(* Deleting a category that the remote already holds *)

\* a category the user added on day 0
AddedOnDay0 ==
  [name |-> "Fun", icon |-> "apps-outline", userDefined |-> TRUE,
   createdAt |-> 0, updatedAt |-> 0]

\* the store after addCategory and a pushCategories on day 0
InitPushed ==
  /\ txns = EmptyStore
  /\ writer = EmptyStore
  /\ cats = [c \in {"cat-food", "cat-other", "u1"} |->
               IF c = "u1" THEN AddedOnDay0
               ELSE SeededCategory(IF c = "cat-food" THEN "Food" ELSE "Fun")]
  /\ itemCount = [c \in {"cat-food", "cat-other", "u1"} |-> 0]
  /\ ui = NoUi
  /\ now = 0
  /\ last = NoOp
  /\ budget = 0
  /\ config = PurgeDisabled
  /\ rTxns = EmptyStore
  /\ rCats = remoteUpsertCategories(EmptyStore, localCategories(cats, "A"), 0)
  /\ session = "A"
  /\ lastSyncAt = Null
  /\ channel = FALSE
  /\ sync = NoSync
  /\ cycles = 0
  /\ remoteWrites = 0
  /\ hook = NoHook
  /\ provider = NoProvider
  /\ prefs = NoPrefs
  /\ seeding = NoSeeding

NextCategoryDelete ==
  \/ TickDay
  \/ \E input \in FormInputs : SaveTransaction(input)
  \/ \E id \in CategoryIds, name \in CategoryNames : RenameCategory(id, name)
  \/ \E id \in CategoryIds, replacementId \in {NoId, "cat-other"} :
       RemoveCategory(id, replacementId)
  \/ PushCategoriesCall
  \/ PullCategoriesCall

SpecCategoryDelete == InitPushed /\ [][NextCategoryDelete]_vars

\* the last operation deleted a category that the remote holds
DeletedPushedCategory ==
  /\ last.op = "removeCategory"
  /\ last.ret = "true"
  /\ last.cat \in DOMAIN rCats
  /\ rCats[last.cat].user_id = session

\* C26: after deleteCategory(id) of a category that had been pushed, a
\* successful category pull does not create a category with that id again
C26_DeletedCategoryStaysDeleted ==
  [][DeletedPushedCategory /\ PullsCategories => last.cat \notin DOMAIN cats']_vars

\* the push after the deletion sends no tombstone: the remote row is as before
C26_PushLeavesRemoteRow ==
  [][(/\ DeletedPushedCategory
      /\ last'.op = "pushCategories" /\ budget' # budget)
       => /\ last.cat \in DOMAIN rCats'
          /\ rCats'[last.cat] = rCats[last.cat]
          /\ rCats'[last.cat].deleted_at = Null]_vars

C26_WitnessPushAfterDelete ==
  /\ last.op = "pushCategories"
  /\ last.ret = "ok"
  /\ "u1" \notin DOMAIN cats
  /\ "u1" \in DOMAIN rCats

----------------------------------------------------------------------------
(* Properties of the records after a cycle *)

\* the cycle's push phase has sent the local transactions
PushSent == "pushTransactions" \in sync.requested /\ sync.res["pushTransactions"] = Success

\* C27: after a successful syncAll without a local mutation during the cycle,
\* every local transaction the push phase sent has syncStatus synced
C27_PushedBecomeSynced ==
  QuietSuccessfulCycle /\ PushSent =>
    \A id \in DOMAIN txns : txns[id].syncStatus = "synced"

\* syncStatus synced after a cycle is what the pull wrote: the records the
\* pull phase fetched are synced, the others are as they were
C27_OnlyPulledBecomeSynced ==
  QuietSuccessfulCycle /\ PushSent =>
    \A id \in DOMAIN txns :
      IF \E r \in sync.applied : r.id = id
      THEN txns[id].syncStatus = "synced"
      ELSE id \in DOMAIN sync.local0 /\ txns[id] = sync.local0[id]

C27_WitnessPulled ==
  /\ QuietSuccessfulCycle /\ PushSent
  /\ \E id \in DOMAIN txns : txns[id].syncStatus = "synced"
  /\ \E id \in DOMAIN txns : txns[id].syncStatus = "local" /\ txns[id].deleted

----------------------------------------------------------------------------
(* Two accounts on one device: logout with 'Keep Data', then another login *)

NextAccounts ==
  \/ \E input \in SyncInputs : EventsLeft /\ SaveTransaction(input)
  \/ \E caller \in {"provider", "auto", "manual"} : StartSync(caller)
  \/ PhaseBegin
  \/ PullEnd
  \/ PushEnd
  \/ SyncReturn
  \/ Logout
  \/ \E user \in Users : Login(user)

SpecAccounts == Init /\ [][NextAccounts]_vars

\* the push phase has built its payload and awaits the remote
PushRequested == sync.pc = "pushTransactions" /\ sync.step = "await"

\* C29: a transaction created or pulled while one user was authenticated is
\* never sent to the remote tagged with another user's id: a record whose
\* remote row belongs to a user is sent with that user's id
C29_PushKeepsOwner ==
  PushRequested =>
    \A id \in DOMAIN sync.data \cap DOMAIN rTxns :
      sync.data[id].user_id = rTxns[id].user_id

\* every row of the payload carries the id of the user of auth.getUser()
C29_PushTaggedWithSessionUser ==
  PushRequested =>
    \A id \in DOMAIN sync.data : sync.data[id].user_id = sync.user

C29_WitnessOtherUser ==
  /\ PushRequested
  /\ sync.user = "B"
  /\ sync.data # EmptyStore

----------------------------------------------------------------------------
(* Convergence of the remote rows *)

\* the rows the cycle's pull applied and its push then sent
PulledAndPushed ==
  {r \in sync.applied : r.id \in DOMAIN rTxns /\ r.id \in DOMAIN txns}

\* C30: a cycle leaves the remote rows it pulled unchanged, updated_at
\* included: the pull does not cause the pulled row to be pushed again with
\* a newer updated_at
C30_PullNotRepushedNewer ==
  QuietSuccessfulCycle /\ PushSent =>
    \A r \in PulledAndPushed : rTxns[r.id].updated_at = r.updated_at

\* the pulled row is pushed again with the time of the pull as updated_at and
\* with the content it had
C30_PulledRowRepushedAtPullTime ==
  QuietSuccessfulCycle /\ PushSent =>
    \A r \in PulledAndPushed :
      /\ rTxns[r.id].updated_at = txns[r.id].updatedAt
      /\ rTxns[r.id].updated_at >= r.updated_at
      /\ RowContent(rTxns[r.id]) = RowContent(sync.remote0[r.id])

C30_WitnessRepushed ==
  /\ QuietSuccessfulCycle /\ PushSent
  /\ sync.since # Null
  /\ \E r \in PulledAndPushed : rTxns[r.id].updated_at > r.updated_at

====
